---- MODULE Spec2Model ----
(***************************************************************************)
(* Model of the configuration resolver of internal/cli/flags.go: Init()    *)
(* (pre-scan of the raw arguments, structured parse, YAML config load,     *)
(* precedence merge, input assembly) and the helper assignWithConversion.  *)
(*                                                                         *)
(* Text is modelled by TLA+ strings (Len, \o and SubSeq work on them).     *)
(* A float64 is modelled in fixed point: the integer number of tenths      *)
(* (0.7 is 7, 42.9 is 429); every text of the model has at most one        *)
(* fractional digit, so no rounding is lost.  A Go int is modelled with    *)
(* IntBits bits instead of 64.                                             *)
(***************************************************************************)
EXTENDS Integers, Sequences, FiniteSets, TLC

(***************************************************************************)
(* Bounds of the model.                                                    *)
(***************************************************************************)
MaxArgs == 3
IntBits == 8

(***************************************************************************)
(* strings package                                                         *)
(***************************************************************************)
Sub(s, i, j) == IF j < i THEN "" ELSE SubSeq(s, i, j)

CharAt(s, i) == SubSeq(s, i, i)

HasPrefix(s, p) == Len(s) >= Len(p) /\ Sub(s, 1, Len(p)) = p

TrimPrefix(s, p) == IF HasPrefix(s, p) THEN Sub(s, Len(p) + 1, Len(s)) ELSE s

\* strings.Index for a one-character separator: 0-based position of the
\* first occurrence, -1 when there is none.
Index(s, c) ==
    IF \E i \in 1..Len(s) : CharAt(s, i) = c
    THEN (CHOOSE i \in 1..Len(s) :
             /\ CharAt(s, i) = c
             /\ \A j \in 1..(i - 1) : CharAt(s, j) # c) - 1
    ELSE 0 - 1

(***************************************************************************)
(* type Flags struct: the fields the model keeps, in declaration order.    *)
(* short/long/yaml/default are the struct tags ("" when the tag is         *)
(* absent), kind is the Go type of the field, key is the key yaml.v3 uses  *)
(* for the field: the yaml tag, or the lower-cased field name without one. *)
(***************************************************************************)
Fields == <<
    [name |-> "Context",     short |-> "C", long |-> "context",     yaml |-> "",
     kind |-> "string",  default |-> "",    key |-> "context"],
    [name |-> "Temperature", short |-> "t", long |-> "temperature", yaml |-> "temperature",
     kind |-> "float64", default |-> "0.7", key |-> "temperature"],
    [name |-> "Stream",      short |-> "s", long |-> "stream",      yaml |-> "stream",
     kind |-> "bool",    default |-> "",    key |-> "stream"],
    [name |-> "Raw",         short |-> "r", long |-> "raw",         yaml |-> "raw",
     kind |-> "bool",    default |-> "",    key |-> "raw"],
    [name |-> "Message",     short |-> "",  long |-> "",            yaml |-> "",
     kind |-> "string",  default |-> "",    key |-> "message"],
    [name |-> "Model",       short |-> "m", long |-> "model",       yaml |-> "model",
     kind |-> "string",  default |-> "",    key |-> "model"],
    [name |-> "Seed",        short |-> "e", long |-> "seed",        yaml |-> "seed",
     kind |-> "int",     default |-> "",    key |-> "seed"],
    [name |-> "Config",      short |-> "",  long |-> "config",      yaml |-> "",
     kind |-> "string",  default |-> "",    key |-> "config"] >>

NumField == Len(Fields)

FieldNames == {Fields[i].name : i \in 1..NumField}

\* The field of a given name.
FieldOf(n) == Fields[CHOOSE i \in 1..NumField : Fields[i].name = n]

\* The zero value of a Go type.
Zero(kind) ==
    CASE kind = "string"  -> ""
      [] kind = "bool"    -> FALSE
      [] kind = "float64" -> 0
      [] kind = "int"     -> 0

\* &Flags{}
ZeroFlags == [n \in FieldNames |-> Zero(FieldOf(n).kind)]

(***************************************************************************)
(* func extractFlag(arg string) string                                     *)
(***************************************************************************)
CutAt(flag, i) == IF i > 0 THEN Sub(flag, 1, i) ELSE flag

CutAtEquals(flag) == CutAt(flag, Index(flag, "="))

\* Mutant: only the "--" prefix is recognised.
extractFlagLongOnly(arg) ==
    IF HasPrefix(arg, "--") THEN CutAtEquals(TrimPrefix(arg, "--")) ELSE ""

extractFlag(arg) ==
    IF HasPrefix(arg, "--") THEN CutAtEquals(TrimPrefix(arg, "--"))
    ELSE IF HasPrefix(arg, "-") /\ Len(arg) > 1 THEN CutAtEquals(TrimPrefix(arg, "-"))
    ELSE ""

(***************************************************************************)
(* Init, lines 108-126: flagToYamlTag, as the set of pairs <<flag, tag>>.  *)
(* A later field overwrites the entry of an earlier one with the same      *)
(* name; no two fields of the struct share a short or long name.           *)
(***************************************************************************)
flagToYamlTag ==
    {<<Fields[i].long, Fields[i].yaml>> :
        i \in {j \in 1..NumField : Fields[j].yaml # "" /\ Fields[j].long # ""}}
    \cup
    {<<Fields[i].short, Fields[i].yaml>> :
        i \in {j \in 1..NumField : Fields[j].yaml # "" /\ Fields[j].short # ""}}

(***************************************************************************)
(* Init, lines 128-138: the scan of os.Args[1:] that builds usedFlags.     *)
(***************************************************************************)
ScannedFlags(argv) == {extractFlag(argv[i]) : i \in 1..Len(argv)} \ {""}

TagsOf(flags) == {p[2] : p \in {q \in flagToYamlTag : q[1] \in flags}}

ScanArgs(argv) == TagsOf(ScannedFlags(argv))

(***************************************************************************)
(* strconv package, on the decimal texts of the model.                     *)
(***************************************************************************)
Digits == {"0", "1", "2", "3", "4", "5", "6", "7", "8", "9"}

DigitVal(c) ==
    CASE c = "0" -> 0 [] c = "1" -> 1 [] c = "2" -> 2 [] c = "3" -> 3
      [] c = "4" -> 4 [] c = "5" -> 5 [] c = "6" -> 6 [] c = "7" -> 7
      [] c = "8" -> 8 [] c = "9" -> 9

AllDigits(s) == \A i \in 1..Len(s) : CharAt(s, i) \in Digits

RECURSIVE DigitsVal(_)
DigitsVal(s) ==
    IF s = "" THEN 0
    ELSE 10 * DigitsVal(Sub(s, 1, Len(s) - 1)) + DigitVal(CharAt(s, Len(s)))

HasSign(s) == HasPrefix(s, "-") \/ HasPrefix(s, "+")

Unsigned(s) == IF HasSign(s) THEN Sub(s, 2, Len(s)) ELSE s

Signed(s, n) == IF HasPrefix(s, "-") THEN 0 - n ELSE n

\* int / int64 of the model: IntBits bits, two's complement.
MaxInt == 2 ^ (IntBits - 1) - 1
MinInt == 0 - 2 ^ (IntBits - 1)

\* strconv.ParseFloat(s, 64): optional sign, digits, optional point and
\* digits, at least one digit.  The value is in tenths.  (Exponents, hex
\* floats, "inf" and "nan" are outside the texts of the model.)
FloatOfParts(s, ip, fp) ==
    IF AllDigits(ip) /\ AllDigits(fp) /\ Len(ip) + Len(fp) > 0
    THEN [ok  |-> TRUE,
          val |-> Signed(s, 10 * DigitsVal(ip)
                            + (IF fp = "" THEN 0 ELSE DigitVal(CharAt(fp, 1))))]
    ELSE [ok |-> FALSE, val |-> 0]

FloatOfUnsigned(s, u, dot) ==
    IF dot < 0 THEN FloatOfParts(s, u, "")
    ELSE FloatOfParts(s, Sub(u, 1, dot), Sub(u, dot + 2, Len(u)))

FloatOfSigned(s, u) == FloatOfUnsigned(s, u, Index(u, "."))

ParseFloat(s) == FloatOfSigned(s, Unsigned(s))

\* strconv.ParseInt(s, 10, bits of int): optional sign, at least one digit,
\* nothing else; a value outside the range of the type is an error.
IntOfValue(v) ==
    IF v \in MinInt..MaxInt THEN [ok |-> TRUE, val |-> v] ELSE [ok |-> FALSE, val |-> 0]

IntOfUnsigned(s, u) ==
    IF u # "" /\ AllDigits(u) THEN IntOfValue(Signed(s, DigitsVal(u)))
    ELSE [ok |-> FALSE, val |-> 0]

ParseInt(s) == IntOfUnsigned(s, Unsigned(s))

\* strconv.ParseBool
ParseBool(s) ==
    IF s \in {"1", "t", "T", "TRUE", "true", "True"} THEN [ok |-> TRUE, val |-> TRUE]
    ELSE IF s \in {"0", "f", "F", "FALSE", "false", "False"} THEN [ok |-> TRUE, val |-> FALSE]
    ELSE [ok |-> FALSE, val |-> FALSE]

\* The float64 -> int64 conversion of an in-range value: truncation toward
\* zero of a number of tenths.
Trunc(tenths) == IF tenths >= 0 THEN tenths \div 10 ELSE 0 - ((0 - tenths) \div 10)

(***************************************************************************)
(* github.com/jessevdk/go-flags: parser.Parse() with flags.Default         *)
(* (HelpFlag | PrintErrors | PassDoubleDash) on the Flags struct.  The     *)
(* error values are the ErrorType names of the library; "nil" is no error. *)
(***************************************************************************)
NoArg == [has |-> FALSE, val |-> ""]

ParseState(e, fl, next) == [err |-> e, flags |-> fl, next |-> next]

\* func argumentIsOption(arg string) bool
argumentIsOption(arg) ==
    \/ Len(arg) > 1 /\ CharAt(arg, 1) = "-" /\ CharAt(arg, 2) # "-"
    \/ Len(arg) > 2 /\ CharAt(arg, 1) = "-" /\ CharAt(arg, 2) = "-" /\ CharAt(arg, 3) # "-"

\* func stripOptionPrefix(optname string) (prefix string, name string, islong bool)
stripOptionPrefix(arg) ==
    IF HasPrefix(arg, "--") THEN [islong |-> TRUE, name |-> Sub(arg, 3, Len(arg))]
    ELSE [islong |-> FALSE, name |-> Sub(arg, 2, Len(arg))]

\* func splitOption(prefix string, option string, islong bool): the name and
\* the argument attached with "=", found at pos (a short option splits only
\* at position 1).
splitOptionAt(islong, name, pos) ==
    IF (islong /\ pos >= 0) \/ (~islong /\ pos = 1)
    THEN [islong |-> islong, name |-> Sub(name, 1, pos),
          argument |-> [has |-> TRUE, val |-> Sub(name, pos + 2, Len(name))]]
    ELSE [islong |-> islong, name |-> name, argument |-> NoArg]

splitStripped(p) == splitOptionAt(p.islong, p.name, Index(p.name, "="))

splitOption(arg) == splitStripped(stripOptionPrefix(arg))

\* lookup.longNames / lookup.shortNames: the index of the field, 0 for none.
\* A field without short and long tag is no option.
longNames(name) ==
    IF \E i \in 1..NumField : Fields[i].long # "" /\ Fields[i].long = name
    THEN CHOOSE i \in 1..NumField : Fields[i].long # "" /\ Fields[i].long = name
    ELSE 0

shortNames(name) ==
    IF \E i \in 1..NumField : Fields[i].short # "" /\ Fields[i].short = name
    THEN CHOOSE i \in 1..NumField : Fields[i].short # "" /\ Fields[i].short = name
    ELSE 0

\* func (option *Option) canArgument() bool
canArgument(i) == Fields[i].kind # "bool"

\* func (option *Option) isSignedNumber() bool
isSignedNumber(i) == Fields[i].kind \in {"int", "float64"}

\* func convert(val string, retval reflect.Value, options multiTag) error
convert(val, kind) ==
    CASE kind = "string"  -> [ok |-> TRUE, val |-> val]
      [] kind = "float64" -> ParseFloat(val)
      [] kind = "int"     -> ParseInt(val)
      [] kind = "bool"    -> ParseBool(val)

\* func (option *Option) set(value *string) error, after the conversion:
\* fl.vals are the fields of the struct, fl.isSet the options with isSet.
SetOption(fl, n, v) == [vals |-> [fl.vals EXCEPT ![n] = v], isSet |-> fl.isSet \cup {n}]

\* parseOption, the end: the converted argument c is stored, or the
\* conversion error returned.
setConverted(fl, i, c, next) ==
    IF ~c.ok THEN ParseState("ErrMarshal", fl, next)
    ELSE ParseState("nil", SetOption(fl, Fields[i].name, c.val), next)

\* parseOption, the argument arg popped from the token list: a token that
\* is itself an option (a negative number for a numeric option excepted) or
\* the double dash is refused.
popArgument(fl, i, arg, next) ==
    IF argumentIsOption(arg)
       /\ ~(isSignedNumber(i) /\ Len(arg) > 1
            /\ CharAt(arg, 1) = "-" /\ CharAt(arg, 2) \in Digits)
    THEN ParseState("ErrExpectedArgument", fl, next)
    ELSE IF arg = "--" THEN ParseState("ErrExpectedArgument", fl, next)
    ELSE setConverted(fl, i, convert(arg, Fields[i].kind), next)

\* func (p *Parser) parseOption(s, name, option, canarg, argument) error
\* next is the index of the first token not yet popped.
parseOption(argv, next, fl, i, canarg, argument) ==
    IF ~canArgument(i)
    THEN IF argument.has
         THEN ParseState("ErrNoArgumentForBool", fl, next)
         ELSE ParseState("nil", SetOption(fl, Fields[i].name, TRUE), next)
    ELSE IF argument.has
    THEN setConverted(fl, i, convert(argument.val, Fields[i].kind), next)
    ELSE IF canarg /\ next <= Len(argv)
    THEN popArgument(fl, i, argv[next], next + 1)
    ELSE ParseState("ErrExpectedArgument", fl, next)

\* func (p *Parser) parseLong(s, name, argument) error
parseLongOption(argv, next, fl, i, argument) ==
    IF i # 0 THEN parseOption(argv, next, fl, i, TRUE, argument)
    ELSE ParseState("ErrUnknownFlag", fl, next)

parseLong(argv, next, fl, name, argument) ==
    parseLongOption(argv, next, fl, longNames(name), argument)

\* func (p *Parser) splitShortConcatArg(s, optname) (string, *string)
splitShortConcatArg(optname) ==
    IF Len(optname) <= 1 THEN [name |-> optname, argument |-> NoArg]
    ELSE IF shortNames(CharAt(optname, 1)) # 0
            /\ canArgument(shortNames(CharAt(optname, 1)))
    THEN [name |-> CharAt(optname, 1),
          argument |-> [has |-> TRUE, val |-> Sub(optname, 2, Len(optname))]]
    ELSE [name |-> optname, argument |-> NoArg]

\* The loop of parseShort over the characters of optname, from position k:
\* only the last character can take its argument from the token list.
RECURSIVE parseShortFrom(_, _, _, _, _, _)
parseShortNext(argv, optname, argument, k, r) ==
    IF r.err # "nil" THEN r
    ELSE parseShortFrom(argv, r.next, r.flags, optname, argument, k + 1)

parseShortOption(argv, next, fl, optname, argument, k, i) ==
    IF i = 0 THEN ParseState("ErrUnknownFlag", fl, next)
    ELSE parseShortNext(argv, optname, argument, k,
                        parseOption(argv, next, fl, i, k = Len(optname), argument))

parseShortFrom(argv, next, fl, optname, argument, k) ==
    IF k > Len(optname) THEN ParseState("nil", fl, next)
    ELSE parseShortOption(argv, next, fl, optname, argument, k,
                          shortNames(CharAt(optname, k)))

\* func (p *Parser) parseShort(s, optname, argument) error
parseShortSplit(argv, next, fl, sp) ==
    parseShortFrom(argv, next, fl, sp.name, sp.argument, 1)

parseShort(argv, next, fl, optname, argument) ==
    parseShortSplit(argv, next, fl,
                    IF argument.has THEN [name |-> optname, argument |-> argument]
                    ELSE splitShortConcatArg(optname))

\* The loop of ParseArgs from token i: fl are the option values set so far,
\* rest the positional tokens.  A double dash ends the options, a token
\* that is no option is positional, an error ends the loop.
RECURSIVE ParseLoop(_, _, _, _)
ParseNext(argv, rest, r) ==
    IF r.err # "nil" THEN [err |-> r.err, flags |-> r.flags, args |-> rest]
    ELSE ParseLoop(argv, r.next, r.flags, rest)

ParseToken(argv, i, fl, rest, sp) ==
    ParseNext(argv, rest,
              IF sp.islong
              THEN parseLong(argv, i + 1, fl, sp.name, sp.argument)
              ELSE parseShort(argv, i + 1, fl, sp.name, sp.argument))

ParseLoop(argv, i, fl, rest) ==
    IF i > Len(argv) THEN [err |-> "nil", flags |-> fl, args |-> rest]
    ELSE IF argv[i] = "--"
    THEN [err |-> "nil", flags |-> fl, args |-> rest \o SubSeq(argv, i + 1, Len(argv))]
    ELSE IF ~argumentIsOption(argv[i])
    THEN ParseLoop(argv, i + 1, fl, Append(rest, argv[i]))
    ELSE ParseToken(argv, i, fl, rest, splitOption(argv[i]))

\* func (option *Option) clearDefault(): an option that was not set takes
\* the value of its default tag, when it has one.
defaultOf(fl, f) ==
    IF f.name \notin fl.isSet /\ (f.short # "" \/ f.long # "") /\ f.default # ""
    THEN convert(f.default, f.kind).val
    ELSE fl.vals[f.name]

clearDefault(fl) == [n \in FieldNames |-> defaultOf(fl, FieldOf(n))]

\* func (p *Parser) Parse() ([]string, error), on ret = &Flags{}: the error,
\* the struct, the options taken from the tokens and the positional tokens.
ParseResult(r) ==
    IF r.err # "nil"
    THEN [err |-> r.err, flags |-> r.flags.vals, isSet |-> r.flags.isSet, args |-> <<>>]
    ELSE [err |-> "nil", flags |-> clearDefault(r.flags),
          isSet |-> r.flags.isSet, args |-> r.args]

Parse(argv) == ParseResult(ParseLoop(argv, 1, [vals |-> ZeroFlags, isSet |-> {}], <<>>))

(***************************************************************************)
(* gopkg.in/yaml.v3: yaml.Unmarshal(data, config) into &Flags{}.  A        *)
(* document is a function from the keys of the mapping to scalar nodes; a  *)
(* node has the tag the resolver gives it (a plain 0.9 is !!float, a       *)
(* quoted "7" is !!str) and its text.                                      *)
(***************************************************************************)
Node(tag, value) == [tag |-> tag, value |-> value]

\* func (d *decoder) scalar(n *Node, out reflect.Value) bool: whether the
\* node decodes into a field of the kind, and the value set.
Good(v) == [good |-> TRUE, val |-> v]

scalarInt(n, i, f) ==
    IF n.tag = "!!int" /\ i.ok THEN Good(i.val)
    ELSE IF n.tag = "!!float" /\ f.ok /\ f.val % 10 = 0 /\ Trunc(f.val) \in MinInt..MaxInt
    THEN Good(Trunc(f.val))
    ELSE [good |-> FALSE, val |-> 0]

scalarFloat(n, f) ==
    IF n.tag \in {"!!int", "!!float"} /\ f.ok THEN Good(f.val)
    ELSE [good |-> FALSE, val |-> 0]

scalarBool(n) ==
    IF n.tag = "!!bool" THEN Good(n.value \in {"true", "True", "TRUE"})
    ELSE IF n.tag = "!!str" /\ n.value \in {"y", "Y", "yes", "Yes", "YES", "on", "On", "ON"}
    THEN Good(TRUE)
    ELSE IF n.tag = "!!str" /\ n.value \in {"n", "N", "no", "No", "NO", "off", "Off", "OFF"}
    THEN Good(FALSE)
    ELSE [good |-> FALSE, val |-> FALSE]

scalar(n, kind) ==
    CASE kind = "string"  -> Good(n.value)
      [] kind = "int"     -> scalarInt(n, ParseInt(n.value), ParseFloat(n.value))
      [] kind = "float64" -> scalarFloat(n, ParseFloat(n.value))
      [] kind = "bool"    -> scalarBool(n)

\* The decoding of one field f of the struct from the document: a field
\* whose key the document does not hold, or whose node does not decode,
\* stays zero.
decodeNode(f, r) == [bad |-> ~r.good, val |-> IF r.good THEN r.val ELSE Zero(f.kind)]

decodeField(doc, f) ==
    IF f.key \in DOMAIN doc THEN decodeNode(f, scalar(doc[f.key], f.kind))
    ELSE [bad |-> FALSE, val |-> Zero(f.kind)]

\* func Unmarshal(in []byte, out interface{}) error, for a well-formed
\* document: every field whose key is in the document is decoded, and a
\* field that does not decode makes the call return a *TypeError.
UnmarshalResult(dec) ==
    [err    |-> IF \E n \in FieldNames : dec[n].bad THEN "TypeError" ELSE "nil",
     config |-> [n \in FieldNames |-> dec[n].val]]

Unmarshal(doc) == UnmarshalResult([n \in FieldNames |-> decodeField(doc, FieldOf(n))])

(***************************************************************************)
(* func loadYAMLConfig(configPath string): file is what the environment    *)
(* holds at the path: state is "badpath" (GetAbsolutePath fails),          *)
(* "absent" (os.IsNotExist), "unreadable" (another read error), "garbage"  *)
(* (bytes that are no YAML document) or "yaml" with its doc.               *)
(***************************************************************************)
LoadResult(u) ==
    IF u.err # "nil" THEN [err |-> "error parsing config file", config |-> ZeroFlags]
    ELSE [err |-> "nil", config |-> u.config]

loadYAMLConfig(file) ==
    CASE file.state = "badpath"    -> [err |-> "invalid config path", config |-> ZeroFlags]
      [] file.state = "absent"     -> [err |-> "config file not found", config |-> ZeroFlags]
      [] file.state = "unreadable" -> [err |-> "error reading config file", config |-> ZeroFlags]
      [] file.state = "garbage"    -> [err |-> "error parsing config file", config |-> ZeroFlags]
      [] file.state = "yaml"       -> LoadResult(Unmarshal(file.doc))

(***************************************************************************)
(* util.GetDefaultConfigPath(): the path of ~/.config/fabric/config.yaml   *)
(* when that file exists, "" without error when it does not, "" with an    *)
(* error when the location cannot be determined.                           *)
(***************************************************************************)
DefaultConfigPath == "~/.config/fabric/config.yaml"

GetDefaultConfigPath(d) ==
    CASE d = "exists"  -> [path |-> DefaultConfigPath, err |-> "nil"]
      [] d = "absent"  -> [path |-> "", err |-> "nil"]
      [] d = "unknown" -> [path |-> "", err |-> "could not determine"]

(***************************************************************************)
(* func assignWithConversion(targetField, sourceField reflect.Value) error *)
(* target and source are [kind, val]; the result is the error ("nil" for   *)
(* none) and the value of the target field afterwards.                     *)
(***************************************************************************)
Archs == {"amd64", "arm64"}

\* int64(val) for a float64 val: truncation toward zero when the result is
\* representable, otherwise implementation-dependent: the integer
\* indefinite value on amd64, saturation on arm64.
FloatToInt(arch, tenths) ==
    IF Trunc(tenths) \in MinInt..MaxInt THEN Trunc(tenths)
    ELSE IF arch = "amd64" THEN MinInt
    ELSE IF tenths > 0 THEN MaxInt ELSE MinInt

\* Mutant: an integer target takes the strict integer parse only.
assignWithConversionStrictInt(arch, target, source) ==
    IF source.kind = "string" /\ target.kind = "int" /\ ParseInt(source.val).ok
    THEN [err |-> "nil", val |-> ParseInt(source.val).val]
    ELSE [err |-> "cannot convert string", val |-> target.val]

assignWithConversion(arch, target, source) ==
    IF source.kind = "string"
    THEN CASE target.kind = "int" ->
                IF ParseFloat(source.val).ok
                THEN [err |-> "nil", val |-> FloatToInt(arch, ParseFloat(source.val).val)]
                ELSE IF ParseInt(source.val).ok
                THEN [err |-> "nil", val |-> ParseInt(source.val).val]
                ELSE [err |-> "cannot convert string", val |-> target.val]
           [] target.kind = "float64" ->
                IF ParseFloat(source.val).ok
                THEN [err |-> "nil", val |-> ParseFloat(source.val).val]
                ELSE [err |-> "cannot convert string", val |-> target.val]
           [] target.kind = "bool" ->
                IF ParseBool(source.val).ok
                THEN [err |-> "nil", val |-> ParseBool(source.val).val]
                ELSE [err |-> "cannot convert string", val |-> target.val]
           [] OTHER -> [err |-> "cannot convert string", val |-> target.val]
    ELSE [err |-> "unsupported conversion", val |-> target.val]

(***************************************************************************)
(* Init, lines 165-189: the merge of the YAML values into ret.  Both       *)
(* structs are of type Flags, so the two fields of one index have the      *)
(* same type.                                                              *)
(***************************************************************************)
TypeOfField(struct, n) == FieldOf(n).kind

\* Mutant: the merge decides by comparing the value with the schema
\* default instead of by the presence of the flag.
MergeFieldByValue(arch, used, flags, yaml, n) ==
    IF FieldOf(n).yaml # ""
       /\ flags[n] = clearDefault([vals |-> ZeroFlags, isSet |-> {}])[n]
    THEN yaml[n]
    ELSE flags[n]

\* Mutant: the merge takes every field the decoder has a key for, with or
\* without a yaml tag.
MergeFieldAnyKey(arch, used, flags, yaml, n) ==
    IF FieldOf(n).key \notin used THEN yaml[n] ELSE flags[n]

\* Mutant: the merge takes a value of the file only when it is not the zero
\* value of its type, as though an absent key left the parsed value alone.
MergeFieldNonZero(arch, used, flags, yaml, n) ==
    IF FieldOf(n).yaml # "" /\ FieldOf(n).yaml \notin used
       /\ yaml[n] # Zero(FieldOf(n).kind)
    THEN yaml[n]
    ELSE flags[n]

MergeField(arch, used, flags, yaml, n) ==
    IF FieldOf(n).yaml # "" /\ FieldOf(n).yaml \notin used
    THEN IF TypeOfField(yaml, n) # TypeOfField(flags, n)
         THEN assignWithConversion(arch,
                  [kind |-> TypeOfField(flags, n), val |-> flags[n]],
                  [kind |-> TypeOfField(yaml, n), val |-> yaml[n]]).val
         ELSE yaml[n]
    ELSE flags[n]

MergeYAML(arch, used, flags, yaml) ==
    [n \in FieldNames |-> MergeField(arch, used, flags, yaml, n)]

(***************************************************************************)
(* func readStdin() (string, error): the lines of the stream, each read up *)
(* to and including its newline, written to the builder until EOF.         *)
(***************************************************************************)
RECURSIVE readLines(_, _)
readLines(stream, sb) ==
    LET nl == Index(stream, "\n")
    IN  IF nl < 0 THEN sb \o stream
        ELSE readLines(Sub(stream, nl + 2, Len(stream)), sb \o Sub(stream, 1, nl + 1))

readStdin(in) ==
    IF in.fails THEN [err |-> "error reading piped message from stdin", ret |-> ""]
    ELSE [err |-> "nil", ret |-> readLines(in.text, "")]

\* Mutant: the segments are joined without separator.
AppendMessageNoNewline(message, newMessage) == message \o newMessage

\* func AppendMessage(message string, newMessage string) (ret string)
AppendMessage(message, newMessage) ==
    IF message # "" THEN message \o "\n" \o newMessage ELSE newMessage

(***************************************************************************)
(* The inputs of one invocation.                                           *)
(***************************************************************************)
\* The tokens of os.Args[1:].
ArgTokens ==
    {"-t", "0.2", "--temperature=0.7", "-t0.2", "-sr", "--",
     "hello", "--model", "gpt-4", "--config=cfg.yaml", "--context=ctx"}

ArgLists == UNION {[1..n -> ArgTokens] : n \in 0..MaxArgs}

\* The raw tokens the scan alone is applied to: with and without prefix,
\* with and without separator, names in and out of the struct.
ScanTokens ==
    {"-", "--", "--=x", "-temperature", "-t=0.2", "--seed=7",
     "hello", "--nosuch", "-e", "--context=ctx", "--model=a=b"}

ScanLists == UNION {[1..n -> ScanTokens] : n \in 0..MaxArgs}

\* The YAML documents a config file can hold.
EmptyDoc == [k \in {} |-> Node("!!str", "")]

ConfigDocs ==
    { EmptyDoc,
      ("temperature" :> Node("!!float", "0.9")) @@ ("seed" :> Node("!!int", "7")),
      ("seed" :> Node("!!str", "7")),
      ("model" :> Node("!!str", "llama")) @@ ("stream" :> Node("!!bool", "true")),
      ("context" :> Node("!!str", "other")) @@ ("temperature" :> Node("!!float", "0.2")),
      ("seed" :> Node("!!str", "abc")) @@ ("model" :> Node("!!str", "llama")) }

NoFile == [state |-> "none", doc |-> EmptyDoc]

ConfigFiles ==
    {[state |-> st, doc |-> EmptyDoc] : st \in {"badpath", "absent", "unreadable", "garbage"}}
    \cup {[state |-> "yaml", doc |-> d] : d \in ConfigDocs}

\* Standard input: a character device (terminal), or a stream with its
\* content, whose read may fail.
NoStdin == [piped |-> FALSE, fails |-> FALSE, text |-> ""]

Stdins ==
    {NoStdin, [piped |-> TRUE, fails |-> TRUE, text |-> ""]}
    \cup {[piped |-> TRUE, fails |-> FALSE, text |-> t] : t \in {"", "line1\nline2\n", "tail"}}

\* The texts and fields assignWithConversion is applied to.
ConvTexts ==
    {"42.9", "7", "-3.5", "0.2", "300", "-300", "abc", "", "true", "false", "1", "+5", "4.", ".5"}

ConvTargets ==
    {[kind |-> "int", val |-> 0], [kind |-> "int", val |-> 11],
     [kind |-> "float64", val |-> 7], [kind |-> "bool", val |-> FALSE],
     [kind |-> "bool", val |-> TRUE], [kind |-> "string", val |-> "Kore"]}

ConvSources ==
    {[kind |-> "string", val |-> t] : t \in ConvTexts}
    \cup {[kind |-> "int", val |-> 7], [kind |-> "float64", val |-> 9],
          [kind |-> "bool", val |-> TRUE]}

(***************************************************************************)
(* The state of one invocation of Init().                                  *)
(***************************************************************************)
VARIABLES
    argv,        \* os.Args[1:]
    pc,          \* the stage Init() is about to run
    usedFlags,   \* the yaml tags of the flags found by the scan
    ret,         \* the Flags struct Init() returns
    args,        \* the positional tokens parser.Parse() returned
    parsed,      \* what parser.Parse() returned, as it returned it
    yamlFlags,   \* the struct loadYAMLConfig returned
    err,         \* the error Init() returns, "nil" for none
    defaultCfg,  \* what GetDefaultConfigPath found, "unused" when not called
    cfgFile,     \* the file loadYAMLConfig was given, NoFile when not called
    stdin,       \* the standard input found by the last stage
    calls,       \* the stages run and the reads made, in order
    target,      \* assignWithConversion: the target field
    source,      \* assignWithConversion: the source field
    convErr,     \* assignWithConversion: the error returned
    run,         \* the number of the invocation of Init(), 1 or 2
    first        \* what the first invocation met and returned, once over

vars == <<argv, pc, usedFlags, ret, args, parsed, yamlFlags, err, defaultCfg,
          cfgFile, stdin, calls, target, source, convErr, run, first>>

initVars == <<argv, usedFlags, ret, args, parsed, yamlFlags, err, defaultCfg,
              cfgFile, stdin, calls>>

convVars == <<target, source, convErr>>

runVars == <<run, first>>

NotParsed == [err |-> "nil", flags |-> ZeroFlags, isSet |-> {}, args |-> <<>>]

\* No invocation is over yet.
NoRun ==
    [err |-> "nil", ret |-> ZeroFlags, defaultCfg |-> "unused", cfgFile |-> NoFile,
     stdin |-> NoStdin, sawConfig |-> FALSE, sawStdin |-> FALSE]

IdleRun == run = 1 /\ first = NoRun

IdleConv ==
    /\ target = [kind |-> "string", val |-> ""]
    /\ source = [kind |-> "string", val |-> ""]
    /\ convErr = "nil"

Init ==
    /\ argv \in ArgLists
    /\ pc = "prescan"
    /\ usedFlags = {}
    /\ ret = ZeroFlags
    /\ args = <<>>
    /\ parsed = NotParsed
    /\ yamlFlags = ZeroFlags
    /\ err = "nil"
    /\ defaultCfg = "unused"
    /\ cfgFile = NoFile
    /\ stdin = NoStdin
    /\ calls = <<>>
    /\ IdleConv
    /\ IdleRun

\* Lines 104-138: the scan of the raw arguments.
PreScan ==
    /\ pc = "prescan"
    /\ usedFlags' = ScanArgs(argv)
    /\ calls' = Append(calls, "scan")
    /\ pc' = "parse"
    /\ UNCHANGED <<argv, ret, args, parsed, yamlFlags, err, defaultCfg, cfgFile, stdin>>
    /\ UNCHANGED convVars
    /\ UNCHANGED runVars

\* Lines 144-146: Init returns when parser.Parse() returned an error.
AfterParse(e) == IF e # "nil" THEN "done" ELSE "config"

\* Mutant: the default path is taken whether or not a file was found there.
ResolveConfigPathAlways(config, g) == IF config # "" THEN config ELSE DefaultConfigPath

\* Lines 149-156: the path of the config file to load, "" for none: the
\* --config value, or else the default path when one was found.
ResolveConfigPath(config, g) ==
    IF config # "" THEN config
    ELSE IF g.err = "nil" /\ g.path # "" THEN g.path
    ELSE ""

\* Mutant: Init goes on to the merge after a failed load.
AfterLoadNoReturn(e) == "merge"

\* Lines 161-163: Init returns when loadYAMLConfig returned an error.
AfterLoad(e) == IF e # "nil" THEN "done" ELSE "merge"

\* Lines 141-146: ret, args and err take what parser.Parse() returned.
ParseReturns(r) ==
    /\ parsed' = r
    /\ ret' = r.flags
    /\ args' = r.args
    /\ err' = r.err
    /\ pc' = AfterParse(r.err)

\* Lines 160-163: yamlFlags and err take what loadYAMLConfig returned.
LoadReturns(r) ==
    /\ yamlFlags' = r.config
    /\ err' = r.err
    /\ pc' = AfterLoad(r.err)

\* Lines 140-146: parser.Parse(); an error is returned at once.
ParseCLI ==
    /\ pc = "parse"
    /\ ParseReturns(Parse(argv))
    /\ calls' = Append(calls, "Parse")
    /\ UNCHANGED <<argv, usedFlags, yamlFlags, defaultCfg, cfgFile, stdin>>
    /\ UNCHANGED convVars
    /\ UNCHANGED runVars

\* Lines 148-163: the default path when no config was given, and the load.
LoadConfig ==
    /\ pc = "config"
    /\ \E d \in {"exists", "absent", "unknown", "unused"} :
          /\ d = "unused" <=> ret.Config # ""
          /\ defaultCfg' = d
          /\ ret' = [ret EXCEPT
                        !.Config = ResolveConfigPath(ret.Config, GetDefaultConfigPath(d))]
          /\ IF ret'.Config = ""
             THEN /\ cfgFile' = NoFile
                  /\ UNCHANGED <<yamlFlags, err, calls>>
                  /\ pc' = "input"
             ELSE \E file \in ConfigFiles :
                     /\ d = "exists" => file.state # "absent"
                     /\ d = "absent" => file.state = "absent"
                     /\ cfgFile' = file
                     /\ LoadReturns(loadYAMLConfig(file))
                     /\ calls' = Append(calls, "loadYAMLConfig")
    /\ UNCHANGED <<argv, usedFlags, args, parsed, stdin>>
    /\ UNCHANGED convVars
    /\ UNCHANGED runVars

\* Lines 165-189: the YAML values are applied where no CLI flag was used.
Merge ==
    /\ pc = "merge"
    /\ \E arch \in Archs : ret' = MergeYAML(arch, usedFlags, ret, yamlFlags)
    /\ calls' = Append(calls, "merge")
    /\ pc' = "input"
    /\ UNCHANGED <<argv, usedFlags, args, parsed, yamlFlags, err, defaultCfg, cfgFile, stdin>>
    /\ UNCHANGED convVars
    /\ UNCHANGED runVars

\* Mutant: the message of the invocation before is still in the struct.
WithPositionalShared(message, positional) ==
    IF Len(positional) > 0
    THEN AppendMessage(first.ret.Message \o message, positional[Len(positional)])
    ELSE first.ret.Message \o message

\* Lines 196-199: the last positional token is appended to the message.
WithPositional(message, positional) ==
    IF Len(positional) > 0
    THEN AppendMessage(message, positional[Len(positional)])
    ELSE message

\* Lines 201-207: the piped text r is appended to the message msg, or its
\* read error returned.
StdinReturns(msg, r) ==
    IF r.err # "nil"
    THEN /\ ret' = [ret EXCEPT !.Message = msg]
         /\ err' = r.err
    ELSE /\ ret' = [ret EXCEPT !.Message = AppendMessage(msg, r.ret)]
         /\ err' = err

\* Lines 192-208: the last positional token and the piped text are
\* appended to the message.
AssembleInput ==
    /\ pc = "input"
    /\ \E in \in Stdins :
          /\ stdin' = in
          /\ IF ~in.piped
             THEN /\ ret' = [ret EXCEPT !.Message = WithPositional(ret.Message, args)]
                  /\ err' = err
                  /\ calls' = Append(calls, "Stat")
             ELSE /\ StdinReturns(WithPositional(ret.Message, args), readStdin(in))
                  /\ calls' = Append(Append(calls, "Stat"), "readStdin")
    /\ pc' = "done"
    /\ UNCHANGED <<argv, usedFlags, args, parsed, yamlFlags, defaultCfg, cfgFile>>
    /\ UNCHANGED convVars
    /\ UNCHANGED runVars

Next == PreScan \/ ParseCLI \/ LoadConfig \/ Merge \/ AssembleInput

Spec == Init /\ [][Next]_vars

(***************************************************************************)
(* assignWithConversion applied to one target and one source field.        *)
(***************************************************************************)
InitConv ==
    /\ argv = <<>>
    /\ pc = "convert"
    /\ usedFlags = {}
    /\ ret = ZeroFlags
    /\ args = <<>>
    /\ parsed = NotParsed
    /\ yamlFlags = ZeroFlags
    /\ err = "nil"
    /\ defaultCfg = "unused"
    /\ cfgFile = NoFile
    /\ stdin = NoStdin
    /\ calls = <<>>
    /\ target \in ConvTargets
    /\ source \in ConvSources
    /\ convErr = "nil"
    /\ IdleRun

Convert ==
    /\ pc = "convert"
    /\ \E arch \in Archs :
          LET r == assignWithConversion(arch, target, source)
          IN  /\ target' = [target EXCEPT !.val = r.val]
              /\ convErr' = r.err
    /\ pc' = "converted"
    /\ UNCHANGED source
    /\ UNCHANGED initVars
    /\ UNCHANGED runVars

NextConv == Convert

SpecConv == InitConv /\ [][NextConv]_vars

(***************************************************************************)
(* The scan of the raw arguments alone, lines 104-138.                     *)
(***************************************************************************)
InitScan ==
    /\ argv \in ScanLists
    /\ pc = "prescan"
    /\ usedFlags = {}
    /\ ret = ZeroFlags
    /\ args = <<>>
    /\ parsed = NotParsed
    /\ yamlFlags = ZeroFlags
    /\ err = "nil"
    /\ defaultCfg = "unused"
    /\ cfgFile = NoFile
    /\ stdin = NoStdin
    /\ calls = <<>>
    /\ IdleConv
    /\ IdleRun

NextScan == PreScan

SpecScan == InitScan /\ [][NextScan]_vars

(***************************************************************************)
(* Properties of Init().                                                   *)
(***************************************************************************)
Succeeded == pc = "done" /\ err = "nil"

\* The struct the structured parser produced from the raw tokens.
Parsed == parsed.flags

YamlFields == {n \in FieldNames : FieldOf(n).yaml # ""}

CliOnlyFields == {n \in FieldNames : FieldOf(n).yaml = ""}

\* A token that names the option on the command line: the prefix and the
\* short or long name, alone or followed by "=" and a value.
Names(tok, n) ==
    \/ /\ FieldOf(n).long # ""
       /\ \/ tok = "--" \o FieldOf(n).long
          \/ HasPrefix(tok, "--" \o FieldOf(n).long \o "=")
    \/ /\ FieldOf(n).short # ""
       /\ \/ tok = "-" \o FieldOf(n).short
          \/ HasPrefix(tok, "-" \o FieldOf(n).short \o "=")

Named(n) == \E i \in 1..Len(argv) : Names(argv[i], n)

\* The config file that was loaded holds the key.
FileHolds(k) == cfgFile.state = "yaml" /\ k \in DOMAIN cfgFile.doc

\* The named options of fl are the returned ones.
CliWinsOver(fl) == \A n \in YamlFields : Named(n) => ret[n] = fl[n]

FileOrDefaultOver(fl) ==
    \A n \in YamlFields :
        ~Named(n) =>
            ret[n] = IF FileHolds(FieldOf(n).key) THEN yamlFlags[n] ELSE fl[n]

\* C2: when Init succeeds, every option with a config-file key that no
\* token names has the config-file value when the file holds the key, and
\* otherwise (no file, key absent) the value the parser produced, which is
\* the schema default.
FileOrDefault == Succeeded => FileOrDefaultOver(Parsed)

\* C3: the merge step leaves every field without yaml tag as it was.
MergeKeepsCliOnly ==
    [][pc = "merge" => \A n \in CliOnlyFields : ret'[n] = ret[n]]_vars

\* C3 witness: the merge has run with a config file that holds the key
\* context, which the decoder put into its struct, and Context is not it.
MergeKeepsCliOnlyWitness ==
    /\ pc = "input"
    /\ Len(calls) > 0 /\ calls[Len(calls)] = "merge"
    /\ FileHolds("context")
    /\ yamlFlags.Context = "other"
    /\ ret.Context # yamlFlags.Context

\* usedFlags against the options parse result r marks as set.
UsedIsSuppliedBy(r) ==
    r.err = "nil" => usedFlags = {FieldOf(n).yaml : n \in r.isSet \cap YamlFields}

\* C4: for every token list the parser accepts, usedFlags is exactly the
\* set of yaml tags of the options the parser took from the tokens.
UsedIsSupplied == pc \notin {"prescan", "parse"} => UsedIsSuppliedBy(parsed)

\* The fields whose key the loaded file gives as text that does not convert
\* into the type of the field.
BadText(fl) ==
    {n \in YamlFields :
        /\ FileHolds(FieldOf(n).key)
        /\ cfgFile.doc[FieldOf(n).key].tag = "!!str"
        /\ FieldOf(n).kind # "string"
        /\ \A a \in Archs :
              assignWithConversion(a,
                  [kind |-> FieldOf(n).kind, val |-> fl[n]],
                  [kind |-> "string", val |-> cfgFile.doc[FieldOf(n).key].value]).err # "nil"}

CoercionContainedOver(fl, bad) ==
    bad # {} =>
        /\ err # "error parsing config file"
        /\ err = "nil" =>
              \A n \in YamlFields :
                  FieldOf(n).yaml \notin usedFlags =>
                      IF n \in bad THEN ret[n] = fl[n]
                      ELSE FileHolds(FieldOf(n).key) =>
                              ret[n] = scalar(cfgFile.doc[FieldOf(n).key], FieldOf(n).kind).val

CoercionContainedFor(fl) == CoercionContainedOver(fl, BadText(fl))

\* C5: a config value that does not convert is contained to its field: Init
\* returns no error because of it, the field keeps its parsed value and the
\* other fields the file holds are merged.
CoercionContained == (pc = "done" /\ cfgFile.state = "yaml") => CoercionContainedFor(Parsed)

\* C6: a config file with seed: "7" (text for the integer option) does not
\* make Init fail, and Seed ends as 7.
TextSeedCoerced ==
    (/\ pc = "done"
     /\ FileHolds("seed")
     /\ cfgFile.doc["seed"] = Node("!!str", "7")
     /\ "seed" \notin usedFlags) =>
        /\ err # "error parsing config file"
        /\ err = "nil" => ret.Seed = 7

\* The number a text parses to, and whether its truncation fits an int.
Real(t) == ParseFloat(t).val

IsReal(t) == ParseFloat(t).ok

Fits(t) == Trunc(Real(t)) \in MinInt..MaxInt

\* The parts of C7 that do not depend on the range of the integer type: a
\* strict integer text that is no real number, a float target, a bool target.
ConversionOthers ==
    /\ (target.kind = "int" /\ ~IsReal(source.val) /\ ParseInt(source.val).ok) =>
          convErr = "nil" /\ target.val = ParseInt(source.val).val
    /\ (target.kind = "float64" /\ IsReal(source.val)) =>
          convErr = "nil" /\ target.val = Real(source.val)
    /\ (target.kind = "bool" /\ source.val = "true") =>
          convErr = "nil" /\ target.val = TRUE
    /\ (target.kind = "bool" /\ source.val = "false") =>
          convErr = "nil" /\ target.val = FALSE

\* C7 as stated: with a text source and an integer target the conversion
\* succeeds for every text that parses as a real number and sets the target
\* to that number truncated toward zero.
ConversionTruncates ==
    (pc = "converted" /\ source.kind = "string") =>
        /\ (target.kind = "int" /\ IsReal(source.val)) =>
              convErr = "nil" /\ target.val = Trunc(Real(source.val))
        /\ ConversionOthers

\* C7 amended: the target is the truncated number when that number is in
\* the range of the integer type; "42.9" gives 42 and "-3.5" gives -3.
ConversionTruncatesInRange ==
    (pc = "converted" /\ source.kind = "string") =>
        /\ (target.kind = "int" /\ IsReal(source.val)) => convErr = "nil"
        /\ (target.kind = "int" /\ IsReal(source.val) /\ Fits(source.val)) =>
              target.val = Trunc(Real(source.val))
        /\ (target.kind = "int" /\ source.val = "42.9") => target.val = 42
        /\ (target.kind = "int" /\ source.val = "-3.5") => target.val = 0 - 3
        /\ ConversionOthers

\* C7 witness: "42.9" was converted into an integer field, which is 42.
ConversionWitness ==
    /\ pc = "converted"
    /\ source = [kind |-> "string", val |-> "42.9"]
    /\ target = [kind |-> "int", val |-> 42]
    /\ convErr = "nil"

ConfigErrors ==
    {"invalid config path", "config file not found", "error reading config file",
     "error parsing config file"}

\* The fields that are options of the command line.
Options == {n \in FieldNames : FieldOf(n).short # "" \/ FieldOf(n).long # ""}

NoDefaultNoErrorOver(fl) ==
    /\ (fl.Config = "" /\ defaultCfg = "absent") =>
          /\ err \notin ConfigErrors
          /\ cfgFile = NoFile
          /\ \A n \in Options : ret[n] = fl[n]
    /\ err = "config file not found" => fl.Config # "" /\ cfgFile.state = "absent"

\* C8: without --config and without a file at the default location Init
\* reads no config file, returns no config error and leaves every option at
\* its parsed value; "config file not found" needs an explicit path.
NoDefaultNoError == pc = "done" => NoDefaultNoErrorOver(Parsed)

\* C8 witness: -t 0.2 without --config, no default file: Init succeeded
\* with Temperature 0.2 and no config path.
NoDefaultNoErrorWitness ==
    /\ Succeeded
    /\ argv = <<"-t", "0.2">>
    /\ defaultCfg = "absent"
    /\ ret.Config = ""
    /\ ret.Temperature = 2

Rank(c) ==
    CASE c = "scan" -> 1 [] c = "Parse" -> 2 [] c = "loadYAMLConfig" -> 3
      [] c = "merge" -> 4 [] c = "Stat" -> 5 [] c = "readStdin" -> 6

Called(c) == \E i \in 1..Len(calls) : calls[i] = c

\* What C9 says of a finished Init, with r what the parser returned, l what
\* the loader returned.
StopsAtError(r, l) ==
    /\ r.err # "nil" =>
          /\ err # "nil" /\ err = r.err
          /\ calls = <<"scan", "Parse">>
          /\ cfgFile = NoFile
    /\ (cfgFile # NoFile /\ l.err # "nil") =>
          /\ err # "nil" /\ err = l.err
          /\ calls = <<"scan", "Parse", "loadYAMLConfig">>
          /\ \A n \in YamlFields : ret[n] = r.flags[n]
    /\ (stdin.piped /\ stdin.fails) =>
          err = "error reading piped message from stdin"

\* C9: the stages run in the order scan, parse, config load, merge, input;
\* a parse error ends Init before any config file is read, a config error
\* before any merge and before standard input is read, a read error of
\* standard input is returned; in each case the error is not nil.
PipelineOrder ==
    /\ \A i, j \in 1..Len(calls) : i < j => Rank(calls[i]) < Rank(calls[j])
    /\ Succeeded =>
          /\ Called("scan") /\ Called("Parse") /\ Called("Stat")
          /\ Called("loadYAMLConfig") <=> cfgFile # NoFile
          /\ Called("merge") <=> cfgFile # NoFile
    /\ pc = "done" => StopsAtError(parsed, loadYAMLConfig(cfgFile))

\* C9 witness: a config file that does not decode ended Init after the load.
PipelineOrderWitness ==
    /\ pc = "done"
    /\ err = "error parsing config file"
    /\ cfgFile.state = "yaml"
    /\ calls = <<"scan", "Parse", "loadYAMLConfig">>
    /\ argv = <<"hello">>
    /\ ret.Message = ""

\* The message C10 describes: the last positional token, then the piped
\* text, with a newline before the piped text when a token came first.
Positional == parsed.args

LastOf(positional) == IF Len(positional) > 0 THEN positional[Len(positional)] ELSE ""

ExpectedMessage(tok) ==
    IF ~stdin.piped THEN tok
    ELSE IF tok # "" THEN tok \o "\n" \o stdin.text
    ELSE stdin.text

MessageAssembledFrom(positional) ==
    /\ ret.Message = ExpectedMessage(LastOf(positional))
    /\ (argv = <<"--model", "gpt-4", "hello">> /\ ~stdin.piped /\ cfgFile = NoFile) =>
          ret.Message = "hello" /\ ret.Model = "gpt-4"
    /\ (positional = <<>> /\ stdin.piped) => ret.Message = stdin.text

\* C10: after a successful Init the message is the last positional token
\* followed by the piped text, newline-separated when both are there.
MessageAssembled == Succeeded => MessageAssembledFrom(Positional)

\* C10 witness: two positional tokens and piped text: the message is the
\* last token, a newline and the piped text.
MessageAssembledWitness ==
    /\ Succeeded
    /\ Positional = <<"gpt-4", "hello">>
    /\ stdin.piped /\ stdin.text = "line1\nline2\n"
    /\ ret.Message = "hello\nline1\nline2\n"

(***************************************************************************)
(* The merge and the keys of the file.                                     *)
(***************************************************************************)
\* Init has returned after a config file was read and decoded without error.
LoadedConfig ==
    /\ pc = "done"
    /\ Called("loadYAMLConfig")
    /\ cfgFile.state = "yaml"
    /\ loadYAMLConfig(cfgFile).err = "nil"

\* The options with a yaml tag the scan did not find on the command line.
Unused == {n \in YamlFields : FieldOf(n).yaml \notin usedFlags}

\* C13: whenever a config file was loaded successfully, every option with a
\* yaml tag that is not in usedFlags ends with the value of its field in the
\* decoded struct, which is the zero value of the type when the file does
\* not hold the key; the parsed default is replaced.
MergeUnconditional ==
    LoadedConfig =>
        \A n \in Unused :
            /\ ret[n] = yamlFlags[n]
            /\ ~FileHolds(FieldOf(n).key) => ret[n] = Zero(FieldOf(n).kind)

\* A file without temperature key was merged over the parsed default 0.7,
\* and Temperature ends as 0.0.
MergeUnconditionalWitness ==
    /\ LoadedConfig
    /\ "Temperature" \in Unused
    /\ ~FileHolds("temperature")
    /\ FileHolds("model")
    /\ Parsed.Temperature = 7
    /\ ret.Temperature = 0
    /\ ret.Model = "llama"

(***************************************************************************)
(* The scan of the raw arguments.                                          *)
(***************************************************************************)
\* A token is flag-shaped: it starts with "--", or with "-" and has more
\* characters.
FlagShaped(tok) == HasPrefix(tok, "--") \/ (HasPrefix(tok, "-") /\ Len(tok) > 1)

\* The text of a flag-shaped token after its prefix.
AfterPrefix(tok) ==
    IF HasPrefix(tok, "--") THEN SubSeq(tok, 3, Len(tok)) ELSE SubSeq(tok, 2, Len(tok))

\* The positions of "=" in a text.
Separators(t) == {i \in 1..Len(t) : SubSeq(t, i, i) = "="}

\* A text cut before its first "=", when it has one.
BeforeSeparator(t) ==
    IF Separators(t) = {} THEN t
    ELSE SubSeq(t, 1, (CHOOSE i \in Separators(t) : \A j \in Separators(t) : i <= j) - 1)

\* The short and long names of the options with yaml tag k.
NamesOfKey(k) ==
    {FieldOf(n).short : n \in {f \in YamlFields : FieldOf(f).yaml = k}}
    \cup {FieldOf(n).long : n \in {f \in YamlFields : FieldOf(f).yaml = k}}

\* The token names an option with yaml tag k.
TokenNamesKey(tok, k) ==
    /\ FlagShaped(tok)
    /\ BeforeSeparator(AfterPrefix(tok)) # ""
    /\ BeforeSeparator(AfterPrefix(tok)) \in NamesOfKey(k)

YamlTags == {FieldOf(n).yaml : n \in YamlFields}

\* The yaml tags some token of the list names.
KeysNamedIn(tokens) ==
    {k \in YamlTags : \E i \in 1..Len(tokens) : TokenNamesKey(tokens[i], k)}

Reverse(tokens) == [i \in 1..Len(tokens) |-> tokens[Len(tokens) + 1 - i]]

\* C12: the scan is total and has set semantics: it runs for every token
\* list and ends without error, a yaml tag is in usedFlags if and only if
\* some token is flag-shaped and its text after the prefix, cut before the
\* first "=", is the short or long name of an option with that tag, and the
\* result is the same for the tokens reversed and for the tokens repeated.
ScanIsSet ==
    /\ pc = "prescan" => ENABLED PreScan
    /\ pc = "parse" => err = "nil"
    /\ pc # "prescan" =>
          /\ usedFlags = KeysNamedIn(argv)
          /\ ScanArgs(Reverse(argv)) = usedFlags
          /\ ScanArgs(argv \o argv) = usedFlags

\* The scan ran over tokens without prefix, a name that is not in the struct,
\* a long name with a value and a short name given twice, and recorded the
\* two tags once each.
ScanIsSetWitness ==
    /\ pc = "parse"
    /\ \E i, j \in 1..Len(argv) : i # j /\ argv[i] = "-e" /\ argv[j] \in {"-e", "--seed=7"}
    /\ \E i \in 1..Len(argv) : argv[i] \in {"hello", "--nosuch", "--context=ctx", "-"}
    /\ usedFlags = {"seed"}

(***************************************************************************)
(* Two invocations of Init(), one after the other, with the same           *)
(* os.Args[1:] and in the same environment.  Init() keeps nothing in       *)
(* package-level variables: usedFlags, flagToYamlTag, ret and the parser   *)
(* are made anew in every call (lines 105, 109, 141-142).                  *)
(***************************************************************************)
\* What an invocation that is over met and returned.  It looked for a
\* config file when the parser returned no error (line 144), and at the
\* standard input when it came to os.Stdin.Stat() (line 192).
RunOver ==
    [err |-> err, ret |-> ret, defaultCfg |-> defaultCfg, cfgFile |-> cfgFile,
     stdin |-> stdin,
     sawConfig |-> Called("Parse") /\ parsed.err = "nil",
     sawStdin |-> Called("Stat")]

\* The first invocation is over and the second starts, with the same
\* arguments, from fresh values.
Again ==
    /\ run = 1
    /\ pc = "done"
    /\ first' = RunOver
    /\ run' = 2
    /\ pc' = "prescan"
    /\ usedFlags' = {}
    /\ ret' = ZeroFlags
    /\ args' = <<>>
    /\ parsed' = NotParsed
    /\ yamlFlags' = ZeroFlags
    /\ err' = "nil"
    /\ defaultCfg' = "unused"
    /\ cfgFile' = NoFile
    /\ stdin' = NoStdin
    /\ calls' = <<>>
    /\ UNCHANGED argv
    /\ UNCHANGED convVars

\* The second invocation finds the default location and the config file
\* as the first found them, when the first looked.
LoadConfigSame ==
    /\ LoadConfig
    /\ (run = 2 /\ first.sawConfig) =>
          /\ defaultCfg' = first.defaultCfg
          /\ cfgFile' = first.cfgFile

\* The second invocation finds the standard input as the first found it,
\* when the first looked.
AssembleInputSame ==
    /\ AssembleInput
    /\ (run = 2 /\ first.sawStdin) => stdin' = first.stdin

\* The raw tokens of the two invocations: options with and without a
\* value, a config path, a positional token and a token the parser rejects.
TwiceTokens == {"-t", "0.2", "--temperature=0.7", "-sr", "hello", "--config=cfg.yaml"}

TwiceLists == UNION {[1..n -> TwiceTokens] : n \in 0..MaxArgs}

InitTwice ==
    /\ argv \in TwiceLists
    /\ pc = "prescan"
    /\ usedFlags = {}
    /\ ret = ZeroFlags
    /\ args = <<>>
    /\ parsed = NotParsed
    /\ yamlFlags = ZeroFlags
    /\ err = "nil"
    /\ defaultCfg = "unused"
    /\ cfgFile = NoFile
    /\ stdin = NoStdin
    /\ calls = <<>>
    /\ IdleConv
    /\ IdleRun

NextTwice == PreScan \/ ParseCLI \/ LoadConfigSame \/ Merge \/ AssembleInputSame \/ Again

SpecTwice == InitTwice /\ [][NextTwice]_vars

====
